---- MODULE Spec2Model ----
(***************************************************************************)
(* A model of the containers of advanced_structures.py: the list-backed    *)
(* class stack, the list-backed class queue, the deque-backed class        *)
(* my_queue, the heapq-managed list pri_q_heap and the synchronized        *)
(* queue.PriorityQueue instance pri_q_PQ.                                  *)
(*                                                                         *)
(* A Python value is a pair <<type, n>>: its runtime type and the index n  *)
(* of the value among the values of that type (the order of the indices is *)
(* the order of the values).  The outcome of a call is a record            *)
(* [kind, val]: kind "return" with the returned value, or kind "raise"     *)
(* with the exception instance.                                            *)
(***************************************************************************)
EXTENDS Integers, Sequences, FiniteSets, TLC

VARIABLES
    debug,            \* __debug__: FALSE when the interpreter runs with -O
    fuel,             \* number of mutating calls the client may still make
    call,             \* name of the method called last ("" before any call)
    ret,              \* outcome of the method called last
    stack,            \* stack.stack, a list, top = last element
    stack_hist,       \* log of the pushes and pops made on the stack
    queue,            \* queue.queue, a list, front = first element
    queue_hist,       \* log of the enqueue and dequeue calls on the queue
    mq_element_type,  \* my_queue.element_type
    mq_queue,         \* my_queue.queue, a deque, front = leftmost element
    mq_hist,          \* log of the enqueue and dequeue calls on the my_queue
    pri_q_heap,       \* the list pri_q_heap, kept in heap order by heapq
    heap_out,         \* entries popped off pri_q_heap since the last push
    heap_balance,     \* heappush calls made minus heappop calls that returned
    pri_q_PQ,         \* the PriorityQueue: its list, its mutex, the waiters
                      \* of its condition not_empty
    thread,           \* per thread: where it is in put/get, and the outcome
    pq_out            \* entries got from pri_q_PQ since the last put

vars == <<debug, fuel, call, ret, stack, stack_hist, queue, queue_hist,
          mq_element_type, mq_queue, mq_hist, pri_q_heap, heap_out,
          heap_balance, pri_q_PQ, thread, pq_out>>

stack_vars == <<stack, stack_hist>>
queue_vars == <<queue, queue_hist>>
mq_vars    == <<mq_element_type, mq_queue, mq_hist>>
heap_vars  == <<pri_q_heap, heap_out, heap_balance>>
pq_vars    == <<pri_q_PQ, thread, pq_out>>
seq_vars   == <<debug, fuel, call, ret, stack_vars, queue_vars, mq_vars>>

(***************************************************************************)
(* Bounds of the model.                                                    *)
(***************************************************************************)
MaxInt == 2              \* the ints 1..MaxInt are offered as elements
MaxInit == 2             \* longest list handed to the stack constructor
MaxStackCalls == 4       \* mutating calls in a run of the stack alone
MaxBuildCalls == 2       \* mutating calls in a run that follows a construction
MaxQueueCalls == 6       \* mutating calls in a run of the two queues
MaxQueueHist == 4        \* longest call log kept for one queue
MaxPairCalls == 8        \* mutating calls in a run of the two queues side by side
MaxContainerCalls == 3   \* mutating calls in a run of all three containers
MaxPriority == 3         \* the priorities 1..MaxPriority are offered
MaxPayload == 3          \* the payloads 1..MaxPayload are offered
MaxHeapSize == 5         \* most entries pri_q_heap is given to hold
MaxPQSize == 3           \* most entries given to a queue in a run with pri_q_PQ

(***************************************************************************)
(* Python values and call outcomes.                                        *)
(***************************************************************************)
IntV(n) == <<"int", n>>
StrV(n) == <<"str", n>>
BoolV(b) == <<"bool", IF b THEN 1 ELSE 0>>
None == <<"NoneType", 0>>
TypeOf(v) == v[1]

\* the elements offered: the ints 1..MaxInt, and one str for the values of
\* any other type
Values == {IntV(n) : n \in 1..MaxInt} \cup {StrV(1)}
Types == {"int", "str"}

TupleV(t) == <<"tuple", t>>

Return(v) == [kind |-> "return", val |-> v]
Raise(exc) == [kind |-> "raise", val |-> <<exc, 0>>]

SeqsUpTo(S, n) == UNION {[1..k -> S] : k \in 0..n}
Front(s) == SubSeq(s, 1, Len(s) - 1)

(***************************************************************************)
(* class stack                                                             *)
(***************************************************************************)
Reverse(s) == [i \in 1..Len(s) |-> s[Len(s) + 1 - i]]

\* faulty variant of stack_init: the list is filled from the last element on
stack_init_reversed(elements) == IF elements = None THEN <<>> ELSE Reverse(elements)

\* stack.__init__(elements): [] when elements is None, else list(elements)
stack_init(elements) == IF elements = None THEN <<>> ELSE elements

\* stack.push: self.stack.append(element)
stack_push(s, element) == Append(s, element)

\* faulty variant of stack_pop: the guard reads len(self.stack) > 1
stack_pop_keeps_last(s) == IF Len(s) > 1 THEN Front(s) ELSE s

\* stack.pop: if self.stack: self.stack.pop(); the method returns nothing
stack_pop(s) == IF s # <<>> THEN Front(s) ELSE s

\* faulty variant of stack_top: reads self.stack[0], the bottom
stack_top_bottom(s) == IF s # <<>> THEN Return(s[1]) ELSE Return(None)

\* stack.top: if self.stack: return self.stack[-1]; else falls off the end
stack_top(s) == IF s # <<>> THEN Return(s[Len(s)]) ELSE Return(None)

\* stack.size: return len(self.stack)
stack_size(s) == Len(s)

\* stack.is_empty
stack_is_empty(s) == IF s # <<>> THEN FALSE ELSE TRUE

StackPush(element) ==
    /\ fuel > 0
    /\ stack' = stack_push(stack, element)
    /\ stack_hist' = Append(stack_hist, <<"push", element>>)
    /\ call' = "stack.push"
    /\ ret' = Return(None)
    /\ fuel' = fuel - 1
    /\ UNCHANGED <<debug, queue_vars, mq_vars, heap_vars, pq_vars>>

\* faulty variant of StackPop: return self.stack.pop(), the element removed
StackPop_returning ==
    /\ fuel > 0
    /\ stack' = stack_pop(stack)
    /\ stack_hist' = Append(stack_hist, <<"pop", None>>)
    /\ call' = "stack.pop"
    /\ ret' = stack_top(stack)
    /\ fuel' = fuel - 1
    /\ UNCHANGED <<debug, queue_vars, mq_vars, heap_vars, pq_vars>>

StackPop ==
    /\ fuel > 0
    /\ stack' = stack_pop(stack)
    /\ stack_hist' = Append(stack_hist, <<"pop", None>>)
    /\ call' = "stack.pop"
    /\ ret' = Return(None)
    /\ fuel' = fuel - 1
    /\ UNCHANGED <<debug, queue_vars, mq_vars, heap_vars, pq_vars>>

StackTop ==
    /\ call' = "stack.top"
    /\ ret' = stack_top(stack)
    /\ UNCHANGED <<debug, fuel, stack_vars, queue_vars, mq_vars, heap_vars, pq_vars>>

StackSize ==
    /\ call' = "stack.size"
    /\ ret' = Return(IntV(stack_size(stack)))
    /\ UNCHANGED <<debug, fuel, stack_vars, queue_vars, mq_vars, heap_vars, pq_vars>>

StackIsEmpty ==
    /\ call' = "stack.is_empty"
    /\ ret' = Return(BoolV(stack_is_empty(stack)))
    /\ UNCHANGED <<debug, fuel, stack_vars, queue_vars, mq_vars, heap_vars, pq_vars>>

StackNext ==
    \/ \E element \in Values : StackPush(element)
    \/ StackPop
    \/ StackTop
    \/ StackSize
    \/ StackIsEmpty

(***************************************************************************)
(* class queue (the list-backed queue)                                     *)
(***************************************************************************)
Logged(op, arg, outcome) == [op |-> op, arg |-> arg, ret |-> outcome]

\* queue.enqueue: self.queue.append(element)
queue_enqueue(q, element) == Append(q, element)

\* faulty variant of queue_dequeue: self.queue.pop() takes the newest element
queue_dequeue_newest(q) ==
    IF q # <<>>
    THEN [queue |-> Front(q), ret |-> Return(q[Len(q)])]
    ELSE [queue |-> q, ret |-> Return(None)]

\* queue.dequeue: return self.queue.pop(0) if self.queue else None
queue_dequeue(q) ==
    IF q # <<>>
    THEN [queue |-> Tail(q), ret |-> Return(Head(q))]
    ELSE [queue |-> q, ret |-> Return(None)]

\* faulty variant of queue_front: self.queue[0] without the emptiness test
queue_front_unguarded(q) == IF q # <<>> THEN Return(q[1]) ELSE Raise("IndexError")

\* queue.front: return self.queue[0] if self.queue else None
queue_front(q) == IF q # <<>> THEN Return(q[1]) ELSE Return(None)

\* queue.is_empty: return len(self.queue) == 0
queue_is_empty(q) == Len(q) = 0

\* queue.size: return len(self.queue)
queue_size(q) == Len(q)

QueueEnqueue(element) ==
    /\ fuel > 0
    /\ Len(queue_hist) < MaxQueueHist
    /\ queue' = queue_enqueue(queue, element)
    /\ queue_hist' = Append(queue_hist, Logged("enqueue", element, Return(None)))
    /\ call' = "queue.enqueue"
    /\ ret' = Return(None)
    /\ fuel' = fuel - 1
    /\ UNCHANGED <<debug, stack_vars, mq_vars, heap_vars, pq_vars>>

QueueDequeue ==
    /\ fuel > 0
    /\ Len(queue_hist) < MaxQueueHist
    /\ LET r == queue_dequeue(queue) IN
        /\ queue' = r.queue
        /\ queue_hist' = Append(queue_hist, Logged("dequeue", None, r.ret))
        /\ ret' = r.ret
    /\ call' = "queue.dequeue"
    /\ fuel' = fuel - 1
    /\ UNCHANGED <<debug, stack_vars, mq_vars, heap_vars, pq_vars>>

\* faulty variant of QueueFront: the element is read with self.queue.pop(0)
QueueFront_removing ==
    /\ call' = "queue.front"
    /\ ret' = queue_front(queue)
    /\ queue' = queue_dequeue(queue).queue
    /\ UNCHANGED <<debug, fuel, stack_vars, queue_hist, mq_vars, heap_vars, pq_vars>>

QueueFront ==
    /\ call' = "queue.front"
    /\ ret' = queue_front(queue)
    /\ UNCHANGED <<debug, fuel, stack_vars, queue_vars, mq_vars, heap_vars, pq_vars>>

QueueIsEmpty ==
    /\ call' = "queue.is_empty"
    /\ ret' = Return(BoolV(queue_is_empty(queue)))
    /\ UNCHANGED <<debug, fuel, stack_vars, queue_vars, mq_vars, heap_vars, pq_vars>>

QueueSize ==
    /\ call' = "queue.size"
    /\ ret' = Return(IntV(queue_size(queue)))
    /\ UNCHANGED <<debug, fuel, stack_vars, queue_vars, mq_vars, heap_vars, pq_vars>>

(***************************************************************************)
(* class my_queue (the deque-backed queue)                                 *)
(***************************************************************************)
\* my_queue.enqueue: assert type(element) == self.element_type, then
\* self.queue.append(element).  The assert statement is compiled only when
\* __debug__ is true; under python -O it is dropped.
mq_enqueue(element_type, q, element, dbg) ==
    IF dbg /\ ~(TypeOf(element) = element_type)
    THEN [queue |-> q, ret |-> Raise("AssertionError")]
    ELSE [queue |-> Append(q, element), ret |-> Return(None)]

\* my_queue.empty: return len(self.queue) == 0
mq_empty(q) == Len(q) = 0

\* faulty variant of mq_dequeue: self.queue.pop() takes the rightmost element
mq_dequeue_right(q) ==
    IF ~mq_empty(q)
    THEN [queue |-> Front(q), ret |-> Return(q[Len(q)])]
    ELSE [queue |-> q, ret |-> Raise("IndexError")]

\* my_queue.dequeue: self.queue.popleft() if not self.empty(), else IndexError
mq_dequeue(q) ==
    IF ~mq_empty(q)
    THEN [queue |-> Tail(q), ret |-> Return(Head(q))]
    ELSE [queue |-> q, ret |-> Raise("IndexError")]

\* faulty variant of mq_front: returns None on an empty queue, as queue.front
mq_front_silent(q) == IF ~mq_empty(q) THEN Return(q[1]) ELSE Return(None)

\* my_queue.front: self.queue[0] if not self.empty(), else IndexError
mq_front(q) == IF ~mq_empty(q) THEN Return(q[1]) ELSE Raise("IndexError")

MqEnqueue(element) ==
    /\ fuel > 0
    /\ Len(mq_hist) < MaxQueueHist
    /\ LET r == mq_enqueue(mq_element_type, mq_queue, element, debug) IN
        /\ mq_queue' = r.queue
        /\ mq_hist' = Append(mq_hist, Logged("enqueue", element, r.ret))
        /\ ret' = r.ret
    /\ call' = "my_queue.enqueue"
    /\ fuel' = fuel - 1
    /\ UNCHANGED <<debug, stack_vars, queue_vars, mq_element_type, heap_vars, pq_vars>>

MqDequeue ==
    /\ fuel > 0
    /\ Len(mq_hist) < MaxQueueHist
    /\ LET r == mq_dequeue(mq_queue) IN
        /\ mq_queue' = r.queue
        /\ mq_hist' = Append(mq_hist, Logged("dequeue", None, r.ret))
        /\ ret' = r.ret
    /\ call' = "my_queue.dequeue"
    /\ fuel' = fuel - 1
    /\ UNCHANGED <<debug, stack_vars, queue_vars, mq_element_type, heap_vars, pq_vars>>

MqFront ==
    /\ call' = "my_queue.front"
    /\ ret' = mq_front(mq_queue)
    /\ UNCHANGED <<debug, fuel, stack_vars, queue_vars, mq_vars, heap_vars, pq_vars>>

MqEmpty ==
    /\ call' = "my_queue.empty"
    /\ ret' = Return(BoolV(mq_empty(mq_queue)))
    /\ UNCHANGED <<debug, fuel, stack_vars, queue_vars, mq_vars, heap_vars, pq_vars>>

QueueNext ==
    \/ \E element \in Values : QueueEnqueue(element)
    \/ QueueDequeue
    \/ QueueFront
    \/ QueueIsEmpty
    \/ QueueSize

MqNext ==
    \/ \E element \in Values : MqEnqueue(element)
    \/ MqDequeue
    \/ MqFront
    \/ MqEmpty

(***************************************************************************)
(* The heapq functions, applied to the list pri_q_heap: heappush and       *)
(* heappop as the standard library (Lib/heapq.py) defines them, with their *)
(* helpers _siftdown and _siftup.  Positions are counted from 0 as in the  *)
(* library; an entry is a tuple (priority, payload), and tuples compare    *)
(* lexicographically.                                                      *)
(***************************************************************************)
Entries == (1..MaxPriority) \X (1..MaxPayload)

\* the entries the module pushes: (2, 'Sleep'), (1, 'Eat'), (3, 'Work'),
\* the payloads numbered in their alphabetical order
Eat == <<1, 1>>
Sleep == <<2, 2>>
Work == <<3, 3>>

At(heap, pos) == heap[pos + 1]
Put(heap, pos, item) == [heap EXCEPT ![pos + 1] = item]

\* faulty variant of TupleLt: only the priorities are compared
TupleLt_priority(a, b) == a[1] < b[1]

\* a < b on tuples
TupleLt(a, b) == a[1] < b[1] \/ (a[1] = b[1] /\ a[2] < b[2])

\* the loop of heapq._siftdown: newitem climbs while it is less than its parent
RECURSIVE siftdown_loop(_, _, _, _)
siftdown_loop(heap, startpos, pos, newitem) ==
    IF pos > startpos
    THEN LET parentpos == (pos - 1) \div 2
             parent == At(heap, parentpos)
         IN  IF TupleLt(newitem, parent)
             THEN siftdown_loop(Put(heap, pos, parent), startpos, parentpos, newitem)
             ELSE Put(heap, pos, newitem)
    ELSE Put(heap, pos, newitem)

\* heapq._siftdown(heap, startpos, pos)
siftdown(heap, startpos, pos) == siftdown_loop(heap, startpos, pos, At(heap, pos))

\* faulty variant of smaller_child: the right child is never looked at
smaller_child_left(heap, childpos) == childpos

\* the child heapq._siftup moves up: the right one unless the left is less
smaller_child(heap, childpos) ==
    LET rightpos == childpos + 1
    IN  IF rightpos < Len(heap) /\ ~TupleLt(At(heap, childpos), At(heap, rightpos))
        THEN rightpos
        ELSE childpos

\* the loop of heapq._siftup: the smaller child moves up until a leaf is
\* reached, then newitem is put there and sifted down to its place
RECURSIVE siftup_loop(_, _, _, _)
siftup_loop(heap, startpos, pos, newitem) ==
    LET childpos == 2 * pos + 1
    IN  IF childpos < Len(heap)
        THEN LET c == smaller_child(heap, childpos)
             IN  siftup_loop(Put(heap, pos, At(heap, c)), startpos, c, newitem)
        ELSE siftdown(Put(heap, pos, newitem), startpos, pos)

\* heapq._siftup(heap, pos)
siftup(heap, pos) == siftup_loop(heap, pos, pos, At(heap, pos))

\* faulty variant of heappush: an entry the list already holds is not added
heappush_unique(heap, item) ==
    IF \E i \in 1..Len(heap) : heap[i] = item
    THEN heap
    ELSE siftdown(Append(heap, item), 0, Len(heap))

\* heapq.heappush(heap, item): heap.append(item), then _siftdown
heappush(heap, item) == siftdown(Append(heap, item), 0, Len(heap))

\* faulty variant of heappop: the IndexError of an empty list is swallowed
heappop_silent(heap) ==
    IF heap = <<>>
    THEN [heap |-> heap, ret |-> Return(None)]
    ELSE LET lastelt == heap[Len(heap)]
             rest == Front(heap)
         IN  IF rest # <<>>
             THEN [heap |-> siftup(Put(rest, 0, lastelt), 0),
                   ret |-> Return(TupleV(At(rest, 0)))]
             ELSE [heap |-> rest, ret |-> Return(TupleV(lastelt))]

\* faulty variant of heappop: returns heap.pop(), the last element of the list
heappop_last(heap) ==
    IF heap = <<>>
    THEN [heap |-> heap, ret |-> Raise("IndexError")]
    ELSE [heap |-> Front(heap), ret |-> Return(TupleV(heap[Len(heap)]))]

\* heapq.heappop(heap): lastelt = heap.pop() raises IndexError on an empty
\* list; otherwise heap[0] is returned, lastelt taking its place and sifting
heappop(heap) ==
    IF heap = <<>>
    THEN [heap |-> heap, ret |-> Raise("IndexError")]
    ELSE LET lastelt == heap[Len(heap)]
             rest == Front(heap)
         IN  IF rest # <<>>
             THEN [heap |-> siftup(Put(rest, 0, lastelt), 0),
                   ret |-> Return(TupleV(At(rest, 0)))]
             ELSE [heap |-> rest, ret |-> Return(TupleV(lastelt))]

\* heapq.heappush(pri_q_heap, item), while the list holds fewer than cap entries
HeapPush(item, cap) ==
    /\ Len(pri_q_heap) < cap
    /\ pri_q_heap' = heappush(pri_q_heap, item)
    /\ heap_out' = <<>>
    /\ heap_balance' = heap_balance + 1
    /\ call' = "heapq.heappush"
    /\ ret' = Return(None)
    /\ UNCHANGED <<debug, fuel, stack_vars, queue_vars, mq_vars, pq_vars>>

\* heapq.heappop(pri_q_heap)
HeapPop ==
    /\ LET r == heappop(pri_q_heap) IN
        /\ pri_q_heap' = r.heap
        /\ heap_out' = IF r.ret.kind = "return"
                       THEN Append(heap_out, r.ret.val[2])
                       ELSE heap_out
        /\ heap_balance' = IF r.ret.kind = "return"
                           THEN heap_balance - 1
                           ELSE heap_balance
        /\ ret' = r.ret
    /\ call' = "heapq.heappop"
    /\ UNCHANGED <<debug, fuel, stack_vars, queue_vars, mq_vars, pq_vars>>

(***************************************************************************)
(* queue.PriorityQueue, as pri_q_PQ uses it, after the standard library    *)
(* (Lib/queue.py, Lib/threading.py): put(item) and                         *)
(* get(block=True, timeout=None) run under the queue's mutex; get waits on *)
(* the condition not_empty while the list is empty, and put notifies it.   *)
(* _put and _get are heappush and heappop on the queue's list.             *)
(* A thread is at "idle" between calls, at "put_enter"/"get_enter" before  *)
(* it has the mutex, at "put_body"/"get_body" while it holds it, at        *)
(* "waiting" inside not_empty.wait(), at "wake" once notified and at       *)
(* "timedout" once its wait has timed out, in both cases before it has the *)
(* mutex back.                                                             *)
(***************************************************************************)
Threads == {"t1", "t2"}
NoThread == "none"

\* the three ways get is called: get(), get(timeout=s), get(block=False)
Modes == {"block", "timeout", "nowait"}

Pending == [kind |-> "pending", val |-> None]

IdleThread ==
    [pc |-> "idle", call |-> "", mode |-> "block", item |-> Eat,
     expired |-> FALSE, ret |-> Return(None)]

\* puts under way or done and not yet taken out
PQLoad ==
    Len(pri_q_PQ.queue)
        + Cardinality({u \in Threads : thread[u].pc \in {"put_enter", "put_body"}})

\* Condition.notify(): the first waiter is taken off the list and released;
\* a waiter whose wait has already timed out is awake and stays as it is
notified(waiters, th) ==
    IF waiters = <<>>
    THEN th
    ELSE LET w == Head(waiters)
         IN  [th EXCEPT ![w].pc = IF @ = "waiting" THEN "wake" ELSE @]

Without(waiters, t) == SelectSeq(waiters, LAMBDA u : u # t)

\* faulty variant of get_on_empty: get() raises Empty as get(block=False) does
get_on_empty_never_waits(mode, expired) == "raise"

\* what get does when it finds the list empty: raise Empty if not blocking or
\* if the timeout has run out, else wait on not_empty
get_on_empty(mode, expired) ==
    IF mode = "nowait" THEN "raise"
    ELSE IF mode = "block" THEN "wait"
    ELSE IF expired THEN "raise"
    ELSE "wait"

\* pri_q_PQ.put(item) is called
PqPut(t, item, cap) ==
    /\ thread[t].pc = "idle"
    /\ PQLoad < cap
    /\ thread' = [thread EXCEPT ![t] =
           [pc |-> "put_enter", call |-> "put", mode |-> "block", item |-> item,
            expired |-> FALSE, ret |-> Pending]]
    /\ UNCHANGED <<seq_vars, heap_vars, pri_q_PQ, pq_out>>

\* with self.not_full: the mutex is acquired
PqPutAcquire(t) ==
    /\ thread[t].pc = "put_enter"
    /\ pri_q_PQ.mutex = NoThread
    /\ pri_q_PQ' = [pri_q_PQ EXCEPT !.mutex = t]
    /\ thread' = [thread EXCEPT ![t].pc = "put_body"]
    /\ UNCHANGED <<seq_vars, heap_vars, pq_out>>

\* self._put(item), which is heappush; self.not_empty.notify(); the mutex is
\* released on leaving the with block
PqPutBody(t) ==
    /\ thread[t].pc = "put_body"
    /\ pri_q_PQ' = [queue |-> heappush(pri_q_PQ.queue, thread[t].item),
                    mutex |-> NoThread,
                    waiters |-> IF pri_q_PQ.waiters = <<>> THEN <<>>
                                ELSE Tail(pri_q_PQ.waiters)]
    /\ thread' = [notified(pri_q_PQ.waiters, thread) EXCEPT
                      ![t].pc = "idle", ![t].ret = Return(None)]
    /\ pq_out' = <<>>
    /\ UNCHANGED <<seq_vars, heap_vars>>

\* pri_q_PQ.get(...) is called
PqGet(t, mode) ==
    /\ thread[t].pc = "idle"
    /\ thread' = [thread EXCEPT ![t] =
           [pc |-> "get_enter", call |-> "get", mode |-> mode, item |-> Eat,
            expired |-> FALSE, ret |-> Pending]]
    /\ UNCHANGED <<seq_vars, heap_vars, pri_q_PQ, pq_out>>

\* faulty variant of PqGetAcquire: the body of get is entered without the
\* mutex being free
PqGetAcquire_unlocked(t) ==
    /\ thread[t].pc = "get_enter"
    /\ pri_q_PQ' = [pri_q_PQ EXCEPT !.mutex = t]
    /\ thread' = [thread EXCEPT ![t].pc = "get_body"]
    /\ UNCHANGED <<seq_vars, heap_vars, pq_out>>

\* with self.not_empty: the mutex is acquired
PqGetAcquire(t) ==
    /\ thread[t].pc = "get_enter"
    /\ pri_q_PQ.mutex = NoThread
    /\ pri_q_PQ' = [pri_q_PQ EXCEPT !.mutex = t]
    /\ thread' = [thread EXCEPT ![t].pc = "get_body"]
    /\ UNCHANGED <<seq_vars, heap_vars, pq_out>>

\* faulty variant of PqGetBody: _get takes the last element of the list
PqGetBody_last(t) ==
    /\ thread[t].pc = "get_body"
    /\ IF pri_q_PQ.queue # <<>>
       THEN LET r == heappop_last(pri_q_PQ.queue) IN
            /\ pri_q_PQ' = [pri_q_PQ EXCEPT !.queue = r.heap, !.mutex = NoThread]
            /\ thread' = [thread EXCEPT ![t].pc = "idle", ![t].ret = r.ret]
            /\ pq_out' = Append(pq_out, r.ret.val[2])
       ELSE /\ pri_q_PQ' = [pri_q_PQ EXCEPT !.mutex = NoThread,
                                            !.waiters = Append(@, t)]
            /\ thread' = [thread EXCEPT ![t].pc = "waiting"]
            /\ pq_out' = pq_out
    /\ UNCHANGED <<seq_vars, heap_vars>>

\* the body of get, entered with the mutex held, at first or after a wait:
\* while the list is empty, raise Empty or wait; else item = self._get(),
\* which is heappop, and return item
PqGetBody(t) ==
    /\ thread[t].pc = "get_body"
    /\ IF pri_q_PQ.queue # <<>>
       THEN LET r == heappop(pri_q_PQ.queue) IN
            /\ pri_q_PQ' = [pri_q_PQ EXCEPT !.queue = r.heap, !.mutex = NoThread]
            /\ thread' = [thread EXCEPT ![t].pc = "idle", ![t].ret = r.ret]
            /\ pq_out' = Append(pq_out, r.ret.val[2])
       ELSE IF get_on_empty(thread[t].mode, thread[t].expired) = "raise"
       THEN /\ pri_q_PQ' = [pri_q_PQ EXCEPT !.mutex = NoThread]
            /\ thread' = [thread EXCEPT ![t].pc = "idle", ![t].ret = Raise("Empty")]
            /\ pq_out' = pq_out
       ELSE /\ pri_q_PQ' = [pri_q_PQ EXCEPT !.mutex = NoThread,
                                            !.waiters = Append(@, t)]
            /\ thread' = [thread EXCEPT ![t].pc = "waiting"]
            /\ pq_out' = pq_out
    /\ UNCHANGED <<seq_vars, heap_vars>>

\* the time given to get(timeout=s) runs out; a wait under way ends, the
\* waiter staying on the list until the thread has the mutex back
PqDeadline(t) ==
    /\ thread[t].mode = "timeout"
    /\ ~thread[t].expired
    /\ thread[t].pc \in {"get_body", "waiting", "wake"}
    /\ thread' = [thread EXCEPT ![t].expired = TRUE,
                                ![t].pc = IF @ = "waiting" THEN "timedout" ELSE @]
    /\ UNCHANGED <<seq_vars, heap_vars, pri_q_PQ, pq_out>>

\* the end of not_empty.wait(): the mutex is taken back, and a waiter that
\* timed out takes itself off the list if notify has not
PqWakeAcquire(t) ==
    /\ thread[t].pc \in {"wake", "timedout"}
    /\ pri_q_PQ.mutex = NoThread
    /\ pri_q_PQ' = [pri_q_PQ EXCEPT !.mutex = t, !.waiters = Without(@, t)]
    /\ thread' = [thread EXCEPT ![t].pc = "get_body"]
    /\ UNCHANGED <<seq_vars, heap_vars, pq_out>>

\* the steps a thread takes by itself once it is inside a call
PqStep(t) ==
    \/ PqPutAcquire(t)
    \/ PqPutBody(t)
    \/ PqGetAcquire(t)
    \/ PqGetBody(t)
    \/ PqWakeAcquire(t)

(***************************************************************************)
(* Construction.  Every container starts as its constructor leaves it.     *)
(***************************************************************************)
PushLog(elements) == [i \in 1..Len(elements) |-> <<"push", elements[i]>>]

\* the elements a constructor call hands over, in their order
Given(elements) == IF elements = None THEN <<>> ELSE elements

\* stack(elements); the log opens with the elements handed over, as pushes
InitStackWith(elements) ==
    /\ stack = stack_init(elements)
    /\ stack_hist = PushLog(Given(elements))

\* queue() and my_queue(element_type)
InitQueues(element_type) ==
    /\ queue = <<>>
    /\ queue_hist = <<>>
    /\ mq_element_type = element_type
    /\ mq_queue = <<>>
    /\ mq_hist = <<>>

\* pri_q_heap = []
InitHeap ==
    /\ pri_q_heap = <<>>
    /\ heap_out = <<>>
    /\ heap_balance = 0

\* pri_q_PQ = PriorityQueue(), and no thread inside a call
InitPQ ==
    /\ pri_q_PQ = [queue |-> <<>>, mutex |-> NoThread, waiters |-> <<>>]
    /\ thread = [t \in Threads |-> IdleThread]
    /\ pq_out = <<>>

InitCalls(n) ==
    /\ fuel = n
    /\ call = ""
    /\ ret = Return(None)

\* test_stack = stack([1, 2, 3, 4, 5]) is one such construction
InitStack ==
    /\ debug = TRUE
    /\ InitCalls(MaxStackCalls)
    /\ \E elements \in {None} \cup SeqsUpTo(Values, MaxInit) : InitStackWith(elements)
    /\ InitQueues("int")
    /\ InitHeap
    /\ InitPQ

SpecStack == InitStack /\ [][StackNext]_vars

\* test_stack = stack([1, 2, 3, 4, 5])
TestElements == <<IntV(1), IntV(2), IntV(3), IntV(4), IntV(5)>>

\* a run that follows a construction: stack(), stack(elements) for short
\* lists of elements, or the module's test_stack
InitStackBuild ==
    /\ debug = TRUE
    /\ InitCalls(MaxBuildCalls)
    /\ \E elements \in {None, TestElements} \cup SeqsUpTo(Values, MaxInit) :
            InitStackWith(elements)
    /\ InitQueues("int")
    /\ InitHeap
    /\ InitPQ

SpecStackBuild == InitStackBuild /\ [][StackNext]_vars

\* a run that uses the two queues; the interpreter may run with or without -O
InitQueuesRun ==
    /\ debug \in BOOLEAN
    /\ InitCalls(MaxQueueCalls)
    /\ InitStackWith(None)
    /\ \E element_type \in Types : InitQueues(element_type)
    /\ InitHeap
    /\ InitPQ

\* the calls the queue laws are about: the mutators, and my_queue.front
QueuesNext ==
    \/ \E element \in Values : QueueEnqueue(element)
    \/ QueueDequeue
    \/ \E element \in Values : MqEnqueue(element)
    \/ MqDequeue
    \/ MqFront

SpecQueues == InitQueuesRun /\ [][QueuesNext]_vars

\* a run that uses the stack and the two queues
InitContainers ==
    /\ debug \in BOOLEAN
    /\ InitCalls(MaxContainerCalls)
    /\ InitStackWith(None)
    /\ \E element_type \in Types : InitQueues(element_type)
    /\ InitHeap
    /\ InitPQ

ContainersNext == StackNext \/ QueueNext \/ MqNext

SpecContainers == InitContainers /\ [][ContainersNext]_vars

\* a run that uses the heapq-managed list
InitHeapRun ==
    /\ debug = TRUE
    /\ InitCalls(0)
    /\ InitStackWith(None)
    /\ InitQueues("int")
    /\ InitHeap
    /\ InitPQ

HeapNext ==
    \/ \E item \in Entries : HeapPush(item, MaxHeapSize)
    \/ HeapPop

SpecHeap == InitHeapRun /\ [][HeapNext]_vars

\* the entries the module gives to both priority queues
ModuleEntries == {Sleep, Eat, Work}

\* threads that use pri_q_PQ.  Scheduling is fair: a thread inside a call
\* that can take a step again and again (the mutex comes free again and
\* again) does take it.  Nothing makes a thread begin a call, and nothing
\* makes a timeout run out.
PQNext(users) ==
    \/ \E t \in users, item \in ModuleEntries : PqPut(t, item, MaxPQSize)
    \/ \E t \in users, mode \in Modes : PqGet(t, mode)
    \/ \E t \in users : PqStep(t)
    \/ \E t \in users : PqDeadline(t)

ThreadsNext == PQNext(Threads)

SpecPQ ==
    /\ InitHeapRun
    /\ [][ThreadsNext]_vars
    /\ \A t \in Threads : SF_vars(PqStep(t))

\* a single-threaded run that uses both priority queues
BothPQNext ==
    \/ \E item \in ModuleEntries : HeapPush(item, MaxPQSize)
    \/ HeapPop
    \/ PQNext({"t1"})

SpecBothPQ == InitHeapRun /\ [][BothPQNext]_vars

(***************************************************************************)
(* Readings of the call logs, independent of the containers' contents.     *)
(***************************************************************************)
IsEnqueue(r) == r.op = "enqueue"
IsDequeue(r) == r.op = "dequeue"
Succeeded(r) == r.ret.kind = "return"
IsPush(r) == r[1] = "push"
IsPop(r) == r[1] = "pop"
Last(s) == s[Len(s)]
Grew(h) == Len(h') = Len(h) + 1

\* number of elements a stack holds after the first i logged calls, counted
\* without looking at the stack: a pop made while the count is 0 is a no-op
RECURSIVE Held(_, _)
Held(h, i) ==
    IF i = 0 THEN 0
    ELSE IF IsPush(h[i]) THEN Held(h, i - 1) + 1
    ELSE IF Held(h, i - 1) = 0 THEN 0
    ELSE Held(h, i - 1) - 1

NPush(h) == Cardinality({i \in 1..Len(h) : IsPush(h[i])})
NPop(h) == Cardinality({i \in 1..Len(h) : IsPop(h[i])})
NNoopPop(h) == Cardinality({i \in 1..Len(h) : IsPop(h[i]) /\ Held(h, i - 1) = 0})

\* the most recently pushed element not yet popped, found by reading the log
\* backwards and skipping one push for every pop met: <<TRUE, element>>, or
\* <<FALSE, None>> when every pushed element has been popped
RECURSIVE LastUnpopped(_, _, _)
LastUnpopped(h, i, skip) ==
    IF i = 0 THEN <<FALSE, None>>
    ELSE IF IsPop(h[i]) THEN LastUnpopped(h, i - 1, skip + 1)
    ELSE IF skip = 0 THEN <<TRUE, h[i][2]>>
    ELSE LastUnpopped(h, i - 1, skip - 1)

\* the log is n enqueues followed by at most n dequeues
EnqueuesThenDequeues(h) ==
    LET enq == SelectSeq(h, IsEnqueue)
        deq == SelectSeq(h, IsDequeue)
    IN  h = enq \o deq /\ Len(deq) <= Len(enq)

\* the i-th dequeue of the log returned the i-th enqueued element
DequeuesInOrder(h) ==
    LET enq == SelectSeq(h, IsEnqueue)
        deq == SelectSeq(h, IsDequeue)
    IN  \A i \in 1..Len(deq) : i <= Len(enq) /\ deq[i].ret = Return(enq[i].arg)

AllOfType(h, t) == \A i \in 1..Len(h) : IsEnqueue(h[i]) => TypeOf(h[i].arg) = t

\* as many successful dequeues as successful enqueues
Balanced(h) ==
    Cardinality({i \in 1..Len(h) : IsEnqueue(h[i]) /\ Succeeded(h[i])})
        = Cardinality({i \in 1..Len(h) : IsDequeue(h[i]) /\ Succeeded(h[i])})

\* the names the specification gives to the two failures of my_queue
TypeMismatchError == "AssertionError"
EmptyContainerError == "IndexError"

(***************************************************************************)
(* C1. FIFO law, for queue and for my_queue: when the calls made on an     *)
(* initially empty queue are n enqueues (all of the witness type, for      *)
(* my_queue) followed by dequeues, the i-th dequeue returns the i-th       *)
(* enqueued element, for every i up to n.                                  *)
(***************************************************************************)
C1_FifoLaw ==
    /\ EnqueuesThenDequeues(queue_hist) => DequeuesInOrder(queue_hist)
    /\ (AllOfType(mq_hist, mq_element_type) /\ EnqueuesThenDequeues(mq_hist))
           => DequeuesInOrder(mq_hist)

\* queue has returned two different elements in their order of arrival, and
\* my_queue has returned an element it was given
C1_Witness ==
    /\ Len(queue_hist) = 4
    /\ EnqueuesThenDequeues(queue_hist)
    /\ queue_hist[1].arg # queue_hist[2].arg
    /\ queue_hist[3].ret = Return(queue_hist[1].arg)
    /\ queue_hist[4].ret = Return(queue_hist[2].arg)
    /\ Len(mq_hist) = 2
    /\ AllOfType(mq_hist, mq_element_type)
    /\ mq_hist[2].ret = Return(mq_hist[1].arg)

(***************************************************************************)
(* C2. Stack LIFO law: after any pushes and pops (the constructor's        *)
(* elements counting as pushes in order), top() returns the most recently  *)
(* pushed element not yet popped, whenever there is one.                   *)
(***************************************************************************)
C2_TopIsLastUnpopped ==
    LET m == LastUnpopped(stack_hist, Len(stack_hist), 0)
    IN  (call = "stack.top" /\ m[1]) => ret = Return(m[2])

\* top() answered after a pop uncovered an element older than the last push
C2_Witness ==
    LET m == LastUnpopped(stack_hist, Len(stack_hist), 0)
    IN  /\ call = "stack.top"
        /\ m[1]
        /\ ret = Return(m[2])
        /\ Len(stack_hist) >= 4
        /\ IsPop(Last(stack_hist))
        /\ \E i \in 1..Len(stack_hist) : IsPush(stack_hist[i]) /\ stack_hist[i][2] # m[2]

(***************************************************************************)
(* C3. Stack size accounting: size() is the number of pushes (the          *)
(* constructor's elements included) minus the number of pops, the pops     *)
(* made on an empty stack not being subtracted; it is never below 0.       *)
(***************************************************************************)
C3_SizeAccounting ==
    LET n == NPush(stack_hist) - (NPop(stack_hist) - NNoopPop(stack_hist))
    IN  /\ stack_size(stack) = n
        /\ stack_size(stack) >= 0
        /\ call = "stack.size" => ret = Return(IntV(n))

\* size() answered after pops of both sorts, on a stack that still holds something
C3_Witness ==
    /\ call = "stack.size"
    /\ NNoopPop(stack_hist) >= 1
    /\ NPop(stack_hist) > NNoopPop(stack_hist)
    /\ ret = Return(IntV(1))

(***************************************************************************)
(* C6. my_queue type enforcement: an enqueue of a value whose runtime type *)
(* is not the witness type always fails with TypeMismatchError, and the    *)
(* queue holds after the failed call what it held before it.               *)
(***************************************************************************)
C6_TypeEnforced ==
    [][(Grew(mq_hist) /\ IsEnqueue(Last(mq_hist'))
            /\ TypeOf(Last(mq_hist').arg) # mq_element_type)
        => (ret' = Raise(TypeMismatchError) /\ mq_queue' = mq_queue)]_vars

(***************************************************************************)
(* C7. my_queue empty-error law: on a my_queue that holds nothing (new,    *)
(* or after as many successful dequeues as successful enqueues), dequeue() *)
(* and front() fail with EmptyContainerError and leave the queue empty and *)
(* unchanged.                                                              *)
(***************************************************************************)
C7_EmptyError ==
    [][/\ (Grew(mq_hist) /\ IsDequeue(Last(mq_hist')) /\ Balanced(mq_hist))
            => /\ ret' = Raise(EmptyContainerError)
               /\ mq_queue' = <<>> /\ mq_queue' = mq_queue
               /\ mq_element_type' = mq_element_type
       /\ (call' = "my_queue.front" /\ Balanced(mq_hist))
            => /\ ret' = Raise(EmptyContainerError)
               /\ mq_queue' = <<>> /\ mq_vars' = mq_vars]_vars

\* front() has failed on a queue that was used, emptied, and had already
\* refused a dequeue
C7_Witness ==
    /\ call = "my_queue.front"
    /\ ret = Raise(EmptyContainerError)
    /\ Len(mq_hist) = 3
    /\ Succeeded(mq_hist[1]) /\ Succeeded(mq_hist[2])
    /\ IsDequeue(mq_hist[3]) /\ mq_hist[3].ret = Raise(EmptyContainerError)

(***************************************************************************)
(* C9. Silent-absence policy: on an empty stack top() returns None and     *)
(* pop() does nothing; on an empty queue dequeue() and front() return      *)
(* None; none of the four raises, and the container is still empty.        *)
(***************************************************************************)
C9_SilentAbsence ==
    [][/\ (call' = "stack.top" /\ stack = <<>>)
            => (ret' = Return(None) /\ stack' = <<>>)
       /\ (Grew(stack_hist) /\ IsPop(Last(stack_hist')) /\ stack = <<>>)
            => (ret' = Return(None) /\ stack' = <<>>)
       /\ (Grew(queue_hist) /\ IsDequeue(Last(queue_hist')) /\ queue = <<>>)
            => (ret' = Return(None) /\ queue' = <<>>)
       /\ (call' = "queue.front" /\ queue = <<>>)
            => (ret' = Return(None) /\ queue' = <<>>)]_vars

\* an empty stack was popped, an empty queue was dequeued, and front() then
\* answered None on the empty queue
C9_Witness ==
    /\ stack_hist = <<<<"pop", None>>>>
    /\ stack = <<>>
    /\ queue_hist = <<Logged("dequeue", None, Return(None))>>
    /\ queue = <<>>
    /\ call = "queue.front"
    /\ ret = Return(None)

(***************************************************************************)
(* Readings of a thread's progress through pri_q_PQ.get.                   *)
(***************************************************************************)
\* thread t, holding the mutex, leaves the body of get having found the
\* list empty
GetFindsEmpty(t) ==
    /\ thread[t].pc = "get_body"
    /\ thread'[t].pc # "get_body"
    /\ pri_q_PQ.queue = <<>>

\* a call of heapq.heappop(pri_q_heap) on the empty list
HeapPopOnEmpty ==
    /\ call' = "heapq.heappop"
    /\ pq_vars' = pq_vars
    /\ pri_q_heap = <<>>

IsEntry(outcome) == outcome.kind = "return" /\ TypeOf(outcome.val) = "tuple"

\* thread t is blocked inside get(): in not_empty.wait(), or notified and
\* not yet running again
Blocked(t) ==
    /\ thread[t].call = "get"
    /\ thread[t].mode = "block"
    /\ thread[t].pc \in {"waiting", "wake"}

\* thread t has come back from a get made in the given mode
GetDone(t, mode) ==
    /\ thread[t].pc = "idle"
    /\ thread[t].call = "get"
    /\ thread[t].mode = mode

(***************************************************************************)
(* Readings of the priority queue's contents.                              *)
(***************************************************************************)
Priority(e) == e[1]
Count(s, x) == Cardinality({i \in 1..Len(s) : s[i] = x})
NonDecreasing(s) == \A i \in 1..Len(s) - 1 : Priority(s[i]) <= Priority(s[i + 1])
Range(s) == {s[i] : i \in 1..Len(s)}

(***************************************************************************)
(* C4. Priority queue min-extraction law: after any inserts, the entries   *)
(* that repeated extractions return come out in non-decreasing priority    *)
(* order; (2,Sleep), (1,Eat), (3,Work) come out as (1,Eat), (2,Sleep),     *)
(* (3,Work).                                                               *)
(***************************************************************************)
C4_MinExtraction == NonDecreasing(heap_out) /\ NonDecreasing(pq_out)

\* the three entries of the module have been extracted from both priority
\* queues, in priority order
C4_Witness ==
    /\ heap_out = <<Eat, Sleep, Work>>
    /\ pri_q_heap = <<>>
    /\ call = "heapq.heappop"
    /\ ret = Return(TupleV(Work))
    /\ pq_out = <<Eat, Sleep, Work>>
    /\ pri_q_PQ.queue = <<>>
    /\ GetDone("t1", "block")
    /\ thread["t1"].ret = Return(TupleV(Work))

(***************************************************************************)
(* C5. Minimality under interleaving: whatever inserts and extracts came   *)
(* before, an extraction from a non-empty priority queue returns an entry  *)
(* it holds whose priority is at most that of every entry it holds, and    *)
(* removes that entry and no other.                                        *)
(***************************************************************************)
C5_ExtractsMinimum ==
    [][(call' = "heapq.heappop" /\ pri_q_heap # <<>>)
        => /\ ret'.kind = "return"
           /\ LET e == ret'.val[2]
              IN  /\ e \in Range(pri_q_heap)
                  /\ \A x \in Range(pri_q_heap) : Priority(e) <= Priority(x)
                  /\ Len(pri_q_heap') = Len(pri_q_heap) - 1
                  /\ \A x \in Range(pri_q_heap) :
                         Count(pri_q_heap', x)
                             = Count(pri_q_heap, x) - (IF x = e THEN 1 ELSE 0)]_vars

\* an extraction made right after an insert filled the list, which left
\* behind distinct entries, all of higher priority than the one returned
C5_Witness ==
    /\ call = "heapq.heappop"
    /\ Len(heap_out) = 1
    /\ Len(pri_q_heap) = MaxHeapSize - 1
    /\ \A x \in Range(pri_q_heap) : Priority(heap_out[1]) < Priority(x)
    /\ Cardinality(Range(pri_q_heap)) = MaxHeapSize - 1

(***************************************************************************)
(* C8, as stated.  Priority queue empty-error law: an extraction from a    *)
(* priority queue that holds nothing fails at once with an error and       *)
(* leaves the queue empty, for the heapq-backed list and for the           *)
(* PriorityQueue instance alike.                                           *)
(***************************************************************************)
C8_EmptyErrorBoth ==
    [][/\ HeapPopOnEmpty => (ret'.kind = "raise" /\ pri_q_heap' = <<>>)
       /\ \A t \in Threads :
            GetFindsEmpty(t)
                => /\ thread'[t].pc = "idle"
                   /\ thread'[t].ret.kind = "raise"
                   /\ pri_q_PQ'.queue = <<>>]_vars

(***************************************************************************)
(* C8, amended.  heapq.heappop on the empty list fails at once with        *)
(* IndexError and leaves the list empty and unchanged.  On the             *)
(* PriorityQueue instance only get(block=False) fails at once, with        *)
(* queue.Empty; get(), as the module calls it, does not fail: the caller   *)
(* waits.  The queue stays empty and unchanged in both cases.              *)
(***************************************************************************)
C8_EmptyErrorAmended ==
    [][/\ HeapPopOnEmpty
            => (ret' = Raise(EmptyContainerError) /\ heap_vars' = heap_vars
                    /\ pri_q_heap' = <<>>)
       /\ \A t \in Threads :
            GetFindsEmpty(t)
                => /\ pri_q_PQ'.queue = <<>>
                   /\ thread[t].mode = "nowait"
                        => (thread'[t].pc = "idle" /\ thread'[t].ret = Raise("Empty"))
                   /\ thread[t].mode = "block"
                        => (thread'[t].pc = "waiting" /\ thread'[t].ret = Pending)]_vars

\* heappop has failed on the emptied list while a get() waits on the
\* emptied PriorityQueue
C8_Witness ==
    /\ call = "heapq.heappop"
    /\ ret = Raise(EmptyContainerError)
    /\ pri_q_heap = <<>>
    /\ thread["t1"].pc = "waiting"
    /\ thread["t1"].call = "get"
    /\ thread["t1"].mode = "block"
    /\ thread["t1"].ret = Pending
    /\ pri_q_PQ.queue = <<>>
    /\ pri_q_PQ.waiters = <<"t1">>

InBody(t) == thread[t].pc \in {"put_body", "get_body"}

\* in this step thread t comes back from put(x)
PutReturns(t, x) ==
    /\ thread[t].pc = "put_body"
    /\ thread'[t].pc = "idle"
    /\ thread[t].item = x

\* in this step thread t comes back from get with the entry x
GetReturns(t, x) ==
    /\ thread[t].pc = "get_body"
    /\ thread'[t].pc = "idle"
    /\ thread'[t].ret = Return(TupleV(x))

(***************************************************************************)
(* C11. Mutual exclusion in the PriorityQueue: at any moment at most one   *)
(* thread runs the body of put or get, and it is the holder of the mutex;  *)
(* in every step at most one call comes back, the queue gains exactly the  *)
(* entry of a put that comes back and loses exactly the entry a get        *)
(* returns and changes in no other way (so no entry is lost and none is    *)
(* returned twice), and the entry a get returns is of least priority among *)
(* those the queue holds at that step.                                     *)
(***************************************************************************)
C11_Serialized ==
    /\ [](\A t \in Threads : InBody(t) <=> pri_q_PQ.mutex = t)
    /\ [](Cardinality({t \in Threads : InBody(t)}) <= 1)
    /\ [][/\ Cardinality({t \in Threads : thread[t].pc # "idle" /\ thread'[t].pc = "idle"}) <= 1
          /\ \A x \in ModuleEntries :
                Count(pri_q_PQ'.queue, x)
                    = Count(pri_q_PQ.queue, x)
                        + Cardinality({t \in Threads : PutReturns(t, x)})
                        - Cardinality({t \in Threads : GetReturns(t, x)})
          /\ Range(pri_q_PQ'.queue) \subseteq ModuleEntries
          /\ \A t \in Threads, x \in ModuleEntries :
                GetReturns(t, x)
                    => /\ x \in Range(pri_q_PQ.queue)
                       /\ \A y \in Range(pri_q_PQ.queue) : Priority(x) <= Priority(y)]_vars

\* two threads contend: one is inside the body of get on a queue that holds
\* two equal entries and a third, the other has called put and is kept out
C11_Witness ==
    /\ thread["t1"].pc = "get_body"
    /\ pri_q_PQ.mutex = "t1"
    /\ thread["t2"].pc = "put_enter"
    /\ Count(pri_q_PQ.queue, Sleep) = 2
    /\ Len(pq_out) = 1

(***************************************************************************)
(* Reading of the stack's log as pushes and pops made on an empty stack.   *)
(***************************************************************************)
\* what a LIFO container holds, bottom first, after the first i logged calls
RECURSIVE Replay(_, _)
Replay(h, i) ==
    IF i = 0 THEN <<>>
    ELSE LET before == Replay(h, i - 1)
         IN  IF IsPush(h[i]) THEN before \o <<h[i][2]>>
             ELSE IF before = <<>> THEN <<>>
             ELSE SubSeq(before, 1, Len(before) - 1)

OnlyPushes(h) == \A i \in 1..Len(h) : IsPush(h[i])

(***************************************************************************)
(* C12. Stack construction order: a stack built from s1..sn holds what an  *)
(* empty stack holds after push(s1) .. push(sn), s1 at the bottom, and     *)
(* goes on doing so under later pushes and pops; while nothing has been    *)
(* popped top() returns the last element given and size() their number; a  *)
(* stack built from nothing is empty.  A stack built from 1,2,3,4,5 has    *)
(* top() = 5 and size() = 5, and after one pop top() = 4 and size() = 4.   *)
(***************************************************************************)
C12_BuiltAsPushed ==
    LET n == Len(stack_hist)
        popped == PushLog(TestElements) \o <<(<<"pop", None>>)>>
    IN  /\ stack = Replay(stack_hist, n)
        /\ (OnlyPushes(stack_hist) /\ n > 0)
              => /\ stack[1] = stack_hist[1][2]
                 /\ call = "stack.top" => ret = Return(stack_hist[n][2])
                 /\ call = "stack.size" => ret = Return(IntV(n))
        /\ n = 0
              => /\ stack = <<>>
                 /\ call = "stack.top" => ret = Return(None)
                 /\ call = "stack.size" => ret = Return(IntV(0))
        /\ stack_hist = PushLog(TestElements)
              => /\ call = "stack.top" => ret = Return(IntV(5))
                 /\ call = "stack.size" => ret = Return(IntV(5))
        /\ stack_hist = popped
              => /\ call = "stack.top" => ret = Return(IntV(4))
                 /\ call = "stack.size" => ret = Return(IntV(4))

\* test_stack after one pop: top() has returned 4
C12_Witness ==
    /\ stack_hist = PushLog(TestElements) \o <<(<<"pop", None>>)>>
    /\ call = "stack.top"
    /\ ret = Return(IntV(4))
    /\ stack_size(stack) = 4

(***************************************************************************)
(* C13. Inspection is read-only: stack.top(), stack.size(),                *)
(* stack.is_empty(), queue.front(), queue.size(), queue.is_empty(),        *)
(* my_queue.front() and my_queue.empty() leave the elements of the three   *)
(* containers exactly as they were, whether the call returns a value,      *)
(* returns None or raises.                                                 *)
(***************************************************************************)
Inspections ==
    {"stack.top", "stack.size", "stack.is_empty",
     "queue.front", "queue.size", "queue.is_empty",
     "my_queue.front", "my_queue.empty"}

C13_ReadOnly ==
    [][call' \in Inspections
        => /\ stack' = stack
           /\ queue' = queue
           /\ mq_queue' = mq_queue
           /\ mq_element_type' = mq_element_type]_vars

\* queue.front() has returned the front of a queue of two elements, which
\* is still its front, while the stack holds an element and my_queue none
C13_Witness ==
    /\ call = "queue.front"
    /\ Len(queue) = 2
    /\ queue[1] # queue[2]
    /\ ret = Return(queue[1])
    /\ SelectSeq(queue_hist, IsEnqueue) = queue_hist
    /\ Len(stack) = 1
    /\ mq_queue = <<>>

(***************************************************************************)
(* C14. my_queue type invariant: after any enqueue, dequeue and front      *)
(* calls, failed ones included, every element my_queue holds has exactly   *)
(* the type given at construction, and that type never changes.            *)
(***************************************************************************)
C14_TypeInvariant ==
    /\ [](\A i \in 1..Len(mq_queue) : TypeOf(mq_queue[i]) = mq_element_type)
    /\ [][mq_element_type' = mq_element_type]_vars

(***************************************************************************)
(* C15. Stack pop returns nothing: pop() on a stack that holds elements    *)
(* removes the top one and no other, and returns None, as it does on an    *)
(* empty stack, which it leaves empty; the element removed is the one a    *)
(* top() made just before the pop has returned.                            *)
(***************************************************************************)
C15_PopReturnsNothing ==
    [][call' = "stack.pop"
        => /\ ret' = Return(None)
           /\ stack = <<>> => stack' = <<>>
           /\ stack # <<>>
                => /\ Len(stack') = Len(stack) - 1
                   /\ \A i \in 1..Len(stack') : stack'[i] = stack[i]
                   /\ call = "stack.top" => stack = stack' \o <<ret.val>>]_vars

\* a pop has removed the top of a stack of at least three elements, no pop
\* having been made on it before, and has returned None
C15_Witness ==
    /\ call = "stack.pop"
    /\ ret = Return(None)
    /\ NPop(stack_hist) = 1
    /\ IsPop(Last(stack_hist))
    /\ Len(stack) >= 2
    /\ Len(stack) = NPush(stack_hist) - 1
    /\ stack # Replay(stack_hist, Len(stack_hist) - 1)

(***************************************************************************)
(* C16. Priority queue emptiness accounting: the list pri_q_heap, empty at *)
(* first, is empty after any heappush and heappop calls exactly when as    *)
(* many heappop calls have returned an entry as heappush calls were made.  *)
(***************************************************************************)
C16_EmptyIffBalanced == (pri_q_heap = <<>>) <=> (heap_balance = 0)

\* the list has just been emptied by the third of three extractions in a
\* row, two of them of equal entries
C16_Witness ==
    /\ pri_q_heap = <<>>
    /\ heap_balance = 0
    /\ Len(heap_out) = 3
    /\ heap_out[1] = heap_out[2]
    /\ call = "heapq.heappop"
    /\ ret = Return(TupleV(heap_out[3]))

(***************************************************************************)
(* A single-threaded client that gives every insert and every extract to   *)
(* pri_q_heap first and then to pri_q_PQ, as the module does with its      *)
(* three entries, and extracts only from a priority queue that holds an    *)
(* entry.                                                                  *)
(***************************************************************************)
\* both priority queues have been given the same calls
InStep ==
    /\ thread["t1"].pc = "idle"
    /\ Len(pri_q_heap) = Len(pri_q_PQ.queue)

\* item has been pushed on pri_q_heap and not yet put into pri_q_PQ
Owed(item) ==
    /\ Len(pri_q_heap) = Len(pri_q_PQ.queue) + 1
    /\ Count(pri_q_heap, item) > Count(pri_q_PQ.queue, item)

LockstepNext ==
    \/ \E item \in Entries : InStep /\ HeapPush(item, MaxPQSize)
    \/ InStep /\ pri_q_heap # <<>> /\ HeapPop
    \/ \E item \in Entries : Owed(item) /\ PqPut("t1", item, MaxPQSize)
    \/ Len(pri_q_heap) + 1 = Len(pri_q_PQ.queue) /\ PqGet("t1", "block")
    \/ PqPutAcquire("t1")
    \/ PqPutBody("t1")
    \/ PqGetAcquire("t1")
    \/ PqGetBody("t1")

SpecLockstep == InitHeapRun /\ [][LockstepNext]_vars

(***************************************************************************)
(* C17. In single-threaded use pri_q_PQ behaves as pri_q_heap does: given  *)
(* the same inserts and the same extracts made while an entry is held,     *)
(* whenever both have been given the same calls they hold the same entries *)
(* the same number of times, their last calls have had the same outcome,   *)
(* and the entries extracted since the last insert are the same, in the    *)
(* same order.                                                             *)
(***************************************************************************)
C17_SameBehaviour ==
    InStep
        => /\ \A x \in Entries :
                Count(pri_q_heap, x) = Count(pri_q_PQ.queue, x)
           /\ heap_out = pq_out
           /\ call = "heapq.heappush"
                => (thread["t1"].call = "put" /\ thread["t1"].ret = ret)
           /\ call = "heapq.heappop"
                => (thread["t1"].call = "get" /\ thread["t1"].ret = ret)

\* both have been filled and then asked twice for an entry, and have both
\* returned the same two entries of equal priority, one entry being left
C17_Witness ==
    /\ InStep
    /\ Len(pri_q_heap) = 1
    /\ Len(pq_out) = 2
    /\ Priority(pq_out[1]) = Priority(pq_out[2])
    /\ pq_out[1] # pq_out[2]
    /\ heap_out = pq_out
    /\ call = "heapq.heappop"
    /\ thread["t1"].call = "get"
    /\ thread["t1"].ret = Return(TupleV(pq_out[2]))
    /\ ret = thread["t1"].ret

(***************************************************************************)
(* A client that runs queue and my_queue side by side: every enqueue (of   *)
(* an element of the witness type), dequeue and front is made on queue     *)
(* first and then on my_queue.                                             *)
(***************************************************************************)
InitQueuePair ==
    /\ debug \in BOOLEAN
    /\ InitCalls(MaxPairCalls)
    /\ InitStackWith(None)
    /\ \E element_type \in Types : InitQueues(element_type)
    /\ InitHeap
    /\ InitPQ

\* both queues have been given the same calls
PairInStep == Len(queue_hist) = Len(mq_hist) /\ call # "queue.front"

\* queue has been given a call that my_queue has not yet been given
PairOwed == Len(queue_hist) = Len(mq_hist) + 1

QueuePairNext ==
    \/ \E element \in Values :
            /\ PairInStep
            /\ TypeOf(element) = mq_element_type
            /\ QueueEnqueue(element)
    \/ PairInStep /\ QueueDequeue
    \/ PairInStep /\ QueueFront
    \/ \E element \in Values :
            /\ PairOwed
            /\ IsEnqueue(Last(queue_hist))
            /\ element = Last(queue_hist).arg
            /\ MqEnqueue(element)
    \/ PairOwed /\ IsDequeue(Last(queue_hist)) /\ MqDequeue
    \/ call = "queue.front" /\ MqFront

SpecQueuePair == InitQueuePair /\ [][QueuePairNext]_vars

\* the i-th logged call found no element: as many dequeues have handed an
\* element back before it as enqueues were made
FoundEmpty(h, i) ==
    Cardinality({j \in 1..i - 1 : IsEnqueue(h[j])})
        = Cardinality({j \in 1..i - 1 : IsDequeue(h[j]) /\ h[j].ret.kind = "return"})

(***************************************************************************)
(* C18. queue and my_queue simulate each other except on empty: given the  *)
(* same enqueues (of elements of the witness type), dequeues and fronts,   *)
(* they hold the same elements in the same order after every call, and     *)
(* every dequeue and front made while an element is held returns the same  *)
(* value from both; a dequeue or front made on the empty queues returns    *)
(* None from queue and raises IndexError from my_queue, and both queues    *)
(* are still empty.                                                        *)
(***************************************************************************)
C18_SimulateExceptOnEmpty ==
    /\ [](PairInStep => queue = mq_queue)
    /\ [](\A i \in 1..Len(mq_hist) :
            /\ mq_hist[i].op = queue_hist[i].op
            /\ mq_hist[i].arg = queue_hist[i].arg
            /\ IF IsDequeue(mq_hist[i]) /\ FoundEmpty(mq_hist, i)
               THEN /\ queue_hist[i].ret = Return(None)
                    /\ mq_hist[i].ret = Raise(EmptyContainerError)
               ELSE /\ mq_hist[i].ret = queue_hist[i].ret
                    /\ mq_hist[i].ret.kind = "return")
    /\ [][/\ (call' = "my_queue.dequeue" /\ FoundEmpty(mq_hist', Len(mq_hist')))
                => (queue' = <<>> /\ mq_queue' = <<>> /\ mq_queue = <<>>)
          /\ (call = "queue.front" /\ call' = "my_queue.front")
                => /\ queue' = mq_queue'
                   /\ IF FoundEmpty(mq_hist, Len(mq_hist) + 1)
                      THEN /\ ret = Return(None)
                           /\ ret' = Raise(EmptyContainerError)
                           /\ queue' = <<>>
                      ELSE /\ ret' = ret
                           /\ ret'.kind = "return"
                           /\ ret'.val # None]_vars

\* both queues have returned the element given, have then been asked for
\* another, queue answering None and my_queue raising IndexError, and have
\* both taken a further element
C18_Witness ==
    /\ PairInStep
    /\ Len(mq_hist) = 4
    /\ IsEnqueue(mq_hist[1])
    /\ mq_hist[2].ret = Return(mq_hist[1].arg)
    /\ queue_hist[2].ret = Return(mq_hist[1].arg)
    /\ queue_hist[3].ret = Return(None)
    /\ mq_hist[3].ret = Raise(EmptyContainerError)
    /\ IsEnqueue(mq_hist[4])
    /\ mq_hist[4].arg # mq_hist[1].arg
    /\ queue = <<mq_hist[4].arg>>
    /\ mq_queue = queue

(***************************************************************************)
(* Reading of the order of entries: by priority, then by payload.          *)
(***************************************************************************)
LexLe(a, b) == a[1] < b[1] \/ (a[1] = b[1] /\ a[2] <= b[2])
InLexOrder(s) == \A i, j \in 1..Len(s) : i < j => LexLe(s[i], s[j])

\* the entries extracted are in order, and none held is before any of them
SortedPrefix(out, held) ==
    /\ InLexOrder(out)
    /\ \A x \in Range(out), y \in Range(held) : LexLe(x, y)

(***************************************************************************)
(* C19. Priority queue tie-break is by payload: the entries extracted      *)
(* since the last insert come out in the order of (priority, payload)      *)
(* pairs, the smaller payload first among equal priorities, and before     *)
(* every entry still held; so the extraction sequence is the sorted        *)
(* sequence of the entries held, whatever the order they were inserted in. *)
(* This holds for pri_q_heap and for pri_q_PQ.                             *)
(***************************************************************************)
C19_TieBreakByPayload ==
    /\ SortedPrefix(heap_out, pri_q_heap)
    /\ SortedPrefix(pq_out, pri_q_PQ.queue)

\* three entries of one priority have come out of both priority queues,
\* their payloads in increasing order
C19_Witness ==
    /\ InStep
    /\ Len(heap_out) = 3
    /\ Priority(heap_out[1]) = Priority(heap_out[3])
    /\ heap_out[1][2] < heap_out[2][2]
    /\ heap_out[2][2] < heap_out[3][2]
    /\ pq_out = heap_out
    /\ pri_q_heap = <<>>
    /\ pri_q_PQ.queue = <<>>

====
